---- MODULE Spec2Model ----
(***************************************************************************)
(* Model of the redirector library (lib.ts): loadConfig, which validates   *)
(* a parsed YAML document, getRedirectInfo, which resolves a request URL   *)
(* against a configuration, the request handlers built by createHandler    *)
(* and runRedirector, and runRedirector's startup.                         *)
(*                                                                         *)
(* Three specifications share the variables: Spec (library calls on a      *)
(* loaded document), ServerSpec (startup and request handling) and         *)
(* ConcurrentSpec (interleaved calls of getRedirectInfo).                  *)
(*                                                                         *)
(* JavaScript values are tagged records [t, s, n]: t is the typeof-like    *)
(* tag, s the payload of a string, n the payload of a number or boolean.   *)
(* `parse(content) as Config` is an unchecked cast, so the fields of a     *)
(* parsed document range over values the Config interface does not allow.  *)
(***************************************************************************)
EXTENDS Integers, Sequences, FiniteSets

VARIABLES pc, raw, config, error, url, redirect,
          options, env, reads, server, request, response, handler, calls

\* the state of the server: runRedirector's options and environment, the
\* number of reads of the configuration file, the Deno server, and the last
\* request with its response and the handler that produced it
serverVars == <<options, env, reads, server, request, response, handler>>

vars == <<pc, raw, config, error, url, redirect, serverVars, calls>>

(***************************************************************************)
(* Bounds of the model.                                                    *)
(***************************************************************************)
MaxRules == 2

\* number of getRedirectInfo calls in flight at once
MaxCalls == 2

(***************************************************************************)
(* JavaScript values.                                                      *)
(***************************************************************************)
Undefined == [t |-> "undefined", s |-> "", n |-> 0]

Null == [t |-> "null", s |-> "", n |-> 0]

Str(x) == [t |-> "string", s |-> x, n |-> 0]

Num(k) == [t |-> "number", s |-> "", n |-> k]

Bool(b) == [t |-> "boolean", s |-> "", n |-> IF b THEN 1 ELSE 0]

EmptyArray == [t |-> "array", s |-> "", n |-> 0]

\* ToBoolean, as applied by `!config.destination` and `if (config.redirects)`
Truthy(v) ==
  CASE v.t = "undefined" -> FALSE
    [] v.t = "null" -> FALSE
    [] v.t = "string" -> v.s # ""
    [] v.t = "number" -> v.n # 0
    [] v.t = "boolean" -> v.n = 1
    [] OTHER -> TRUE

\* a ?? b
Coalesce(a, b) == IF a.t \in {"undefined", "null"} THEN b ELSE a

Digit(d) == SubSeq("0123456789", d + 1, d + 1)

RECURSIVE NumToString(_)
NumToString(k) == IF k < 10 THEN Digit(k) ELSE NumToString(k \div 10) \o Digit(k % 10)

\* ToString, as applied by a template literal `${v}`
ToString(v) ==
  CASE v.t = "string" -> v.s
    [] v.t = "number" -> NumToString(v.n)
    [] v.t = "boolean" -> IF v.n = 1 THEN "true" ELSE "false"
    [] v.t = "array" -> ""
    [] v.t = "null" -> "null"
    [] OTHER -> "undefined"

\* String.prototype.startsWith
startsWith(str, prefix) ==
  /\ Len(str) >= Len(prefix)
  /\ SubSeq(str, 1, Len(prefix)) = prefix

(***************************************************************************)
(* Parsed documents: what `parse(content)` can hand to loadConfig.         *)
(***************************************************************************)
Rule(from, to, status) == [t |-> "object", from |-> from, to |-> to, status |-> status]

\* a list entry that is not a mapping (YAML `- ~`)
NullRule == [t |-> "null", from |-> Undefined, to |-> Undefined, status |-> Undefined]

\* entries that conform to interface RedirectRule
TypedRules ==
  { Rule(Str(f), Str(p), st) :
      f \in {"/biz", "/blog"},
      p \in {"/baz", "https://blog.example.com"},
      st \in {Undefined, Num(301)} }
  \cup { Rule(Str("/biz"), Str("http://old.example.com/x"), Num(307)),
          Rule(Str("/blog"), Str("https://"), Undefined) }

\* entries the cast lets through although they do not conform
UntypedRules ==
  { NullRule,
    Rule(Str("/biz"), Undefined, Undefined),
    Rule(Str("/blog"), Str("/baz"), Num(302)) }

Rules == TypedRules \cup UntypedRules

RECURSIVE SeqsUpTo(_, _)
SeqsUpTo(S, k) ==
  IF k = 0 THEN {<<>>}
  ELSE LET shorter == SeqsUpTo(S, k - 1)
       IN shorter \cup { Append(q, x) : q \in shorter, x \in S }

Redirects(t, items) == [t |-> t, items |-> items]

RedirectsValues ==
  { Redirects("array", items) : items \in SeqsUpTo(Rules, MaxRules) }
  \cup { Redirects("undefined", <<>>), Redirects("null", <<>>), Redirects("object", <<>>) }

DestinationValues ==
  { Undefined, Str(""), Str("bar.com"), Str("example.com"),
    Num(0), Num(5), Bool(FALSE), Bool(TRUE), EmptyArray }

RedirectStatusValues == { Undefined, Num(301), Num(302) }

Document(t, destination, redirectStatus, redirects) ==
  [t |-> t, destination |-> destination, redirectStatus |-> redirectStatus,
   redirects |-> redirects]

\* an empty document parses to null, a bare scalar to a string
NullDocument == Document("null", Undefined, Undefined, Redirects("undefined", <<>>))

ScalarDocument == Document("string", Undefined, Undefined, Redirects("undefined", <<>>))

Documents ==
  { Document("object", d, rs, r) :
      d \in DestinationValues, rs \in RedirectStatusValues, r \in RedirectsValues }
  \cup { NullDocument, ScalarDocument }

NoConfig == Document("undefined", Undefined, Undefined, Redirects("undefined", <<>>))

(***************************************************************************)
(* Requests: the parts of `new URL(req.url)` that getRedirectInfo reads.   *)
(***************************************************************************)
Pathnames == {"/biz", "/biz/", "/BIZ", "/blog", "/other"}

Searches == {"", "?test=1"}

URL(pathname, search) == [pathname |-> pathname, search |-> search]

URLs == { URL(p, q) : p \in Pathnames, q \in Searches }

NoURL == URL("", "")

(***************************************************************************)
(* loadConfig (after readTextFile and parse have succeeded).               *)
(***************************************************************************)
Returned(value) == [outcome |-> "return", value |-> value, error |-> ""]

Thrown(e) == [outcome |-> "throw", value |-> NoConfig, error |-> e]

MissingDestination == "Config must include a 'destination' field"

\* variant: only an absent destination is rejected
loadConfig_absentOnly(parsed) ==
  IF parsed.t \in {"null", "undefined"}
  THEN Thrown("TypeError")
  ELSE IF parsed.destination.t = "undefined"
       THEN Thrown(MissingDestination)
       ELSE Returned(parsed)

loadConfig(parsed) ==
  IF parsed.t \in {"null", "undefined"}
  THEN Thrown("TypeError")  \* property access on null
  ELSE IF ~Truthy(parsed.destination)
       THEN Thrown(MissingDestination)
       ELSE Returned(parsed)

(***************************************************************************)
(* getRedirectInfo.                                                        *)
(***************************************************************************)
Info(u, status) == [outcome |-> "return", url |-> u, status |-> status]

TypeError == [outcome |-> "throw", url |-> "", status |-> Undefined]

NoInfo == [outcome |-> "none", url |-> "", status |-> Undefined]

\* variant: an absent redirectStatus means 301
defaultStatus_301(cfg) == Coalesce(cfg.redirectStatus, Num(301))

defaultStatus(cfg) == Coalesce(cfg.redirectStatus, Num(307))

\* variant: a rule also matches the paths below its `from`
matches_prefix(pathname, rule) ==
  rule.from.t = "string" /\ startsWith(pathname, rule.from.s)

\* pathname === rule.from
matches(pathname, rule) == rule.from.t = "string" /\ rule.from.s = pathname

\* variant: the rule's own status is ignored
ruleStatus_global(rule, dflt) == dflt

ruleStatus(rule, dflt) == Coalesce(rule.status, dflt)

\* variant: only https:// counts as a full URL
isFullURL_httpsOnly(to) == startsWith(to, "https://")

isFullURL(to) == startsWith(to, "http://") \/ startsWith(to, "https://")

\* variant: the query string is dropped
relativeURL_noSearch(cfg, rule, search) ==
  "https://" \o ToString(cfg.destination) \o ToString(rule.to)

relativeURL(cfg, rule, search) ==
  "https://" \o ToString(cfg.destination) \o ToString(rule.to) \o search

\* variant: the destination is left out
defaultURL_noHost(cfg, pathname, search) ==
  "https://" \o pathname \o search

\* variant: the query string is dropped
defaultURL_noSearch(cfg, pathname, search) ==
  "https://" \o ToString(cfg.destination) \o pathname

defaultURL(cfg, pathname, search) ==
  "https://" \o ToString(cfg.destination) \o pathname \o search

\* the body of `if (pathname === rule.from)`
applyRule(cfg, rule, search, dflt) ==
  IF rule.to.t # "string"
  THEN TypeError  \* rule.to.startsWith is not callable
  ELSE IF isFullURL(rule.to.s)
       THEN Info(rule.to.s, ruleStatus(rule, dflt))
       ELSE Info(relativeURL(cfg, rule, search), ruleStatus(rule, dflt))

\* variant: the last matching rule wins
RECURSIVE scanRedirects_lastWins(_, _, _, _)
scanRedirects_lastWins(cfg, i, pathname, search) ==
  IF i > Len(cfg.redirects.items)
  THEN Info(defaultURL(cfg, pathname, search), defaultStatus(cfg))
  ELSE LET rule == cfg.redirects.items[i]
           later == { j \in (i + 1)..Len(cfg.redirects.items) :
                        /\ cfg.redirects.items[j].t # "null"
                        /\ matches(pathname, cfg.redirects.items[j]) }
       IN IF rule.t = "null"
          THEN TypeError
          ELSE IF matches(pathname, rule) /\ later = {}
               THEN applyRule(cfg, rule, search, defaultStatus(cfg))
               ELSE scanRedirects_lastWins(cfg, i + 1, pathname, search)

\* `for (const rule of config.redirects)` from entry i on
RECURSIVE scanRedirects(_, _, _, _)
scanRedirects(cfg, i, pathname, search) ==
  IF i > Len(cfg.redirects.items)
  THEN Info(defaultURL(cfg, pathname, search), defaultStatus(cfg))
  ELSE LET rule == cfg.redirects.items[i]
       IN IF rule.t = "null"
          THEN TypeError  \* rule.from on null
          ELSE IF matches(pathname, rule)
               THEN applyRule(cfg, rule, search, defaultStatus(cfg))
               ELSE scanRedirects(cfg, i + 1, pathname, search)

\* variant: the request's fragment is carried along with its query
getRedirectInfo_withHash(u, cfg) ==
  IF cfg.redirects.t \in {"undefined", "null"}
  THEN Info(defaultURL(cfg, u.pathname, u.search \o u.hash), defaultStatus(cfg))
  ELSE IF cfg.redirects.t # "array"
       THEN TypeError
       ELSE scanRedirects(cfg, 1, u.pathname, u.search \o u.hash)

getRedirectInfo(u, cfg) ==
  IF cfg.redirects.t \in {"undefined", "null"}
  THEN Info(defaultURL(cfg, u.pathname, u.search), defaultStatus(cfg))
  ELSE IF cfg.redirects.t # "array"
       THEN TypeError  \* config.redirects is not iterable
       ELSE scanRedirects(cfg, 1, u.pathname, u.search)

(***************************************************************************)
(* new URL(req.url): the components of a request URL.                      *)
(***************************************************************************)
\* position of the first character of str at or after `from` that is in chars,
\* Len(str) + 1 when there is none
RECURSIVE IndexOf(_, _, _)
IndexOf(str, chars, from) ==
  IF from > Len(str) THEN Len(str) + 1
  ELSE IF SubSeq(str, from, from) \in chars THEN from
  ELSE IndexOf(str, chars, from + 1)

Slice(str, from, to) == IF from > to THEN "" ELSE SubSeq(str, from, to)

parseURL(href) ==
  LET colon == IndexOf(href, {":"}, 1)
      hostStart == colon + 3
      hostEnd == IndexOf(href, {"/", "?", "#"}, hostStart)
      authority == Slice(href, hostStart, hostEnd - 1)
      portColon == IndexOf(authority, {":"}, 1)
      pathEnd == IndexOf(href, {"?", "#"}, hostEnd)
      queryEnd == IndexOf(href, {"#"}, pathEnd)
      path == Slice(href, hostEnd, pathEnd - 1)
      query == Slice(href, pathEnd, queryEnd - 1)
      fragment == Slice(href, queryEnd, Len(href))
  IN [protocol |-> Slice(href, 1, colon),
      hostname |-> Slice(authority, 1, portColon - 1),
      port |-> Slice(authority, portColon + 1, Len(authority)),
      pathname |-> IF path = "" THEN "/" ELSE path,
      search |-> IF query = "?" THEN "" ELSE query,
      hash |-> IF fragment = "#" THEN "" ELSE fragment]

\* req.url of the requests the handlers receive
Requests ==
  { "http://foo.com/biz",
    "https://foo.com/biz",
    "http://foo.com:8080/biz?test=1",
    "https://other.org/biz?test=1#frag",
    "http://foo.com/blog",
    "http://foo.com/blog#top",
    "http://foo.com/other?test=1",
    "https://foo.com:8443/other?test=1",
    "http://foo.com",
    "https://other.org/#frag" }

NoRequest == ""

(***************************************************************************)
(* The handlers: createHandler's closure and the one runRedirector builds. *)
(***************************************************************************)
Response(status, location) ==
  [outcome |-> "return", body |-> Null, status |-> status, location |-> location]

ThrownResponse == [outcome |-> "throw", body |-> Null, status |-> Undefined, location |-> ""]

NoResponse == [outcome |-> "none", body |-> Null, status |-> Undefined, location |-> ""]

\* variant: the status is hard-coded
newResponse_307(info) == Response(Num(307), info.url)

\* new Response(null, { status, headers: { Location } }); a status outside
\* 200..599 is a RangeError
newResponse(info) ==
  IF info.status.t # "number" \/ info.status.n < 200 \/ info.status.n > 599
  THEN ThrownResponse
  ELSE Response(info.status, info.url)

\* the handler createHandler returns
createHandlerResponse(href, cfg) ==
  LET info == getRedirectInfo(parseURL(href), cfg)
  IN IF info.outcome = "throw" THEN ThrownResponse ELSE newResponse(info)

\* the handler inside runRedirector (it also writes a debug log line)
runRedirectorResponse(href, cfg) ==
  LET info == getRedirectInfo(parseURL(href), cfg)
  IN IF info.outcome = "throw" THEN ThrownResponse ELSE newResponse(info)

\* variant: the handler stores the default status in the configuration
configAfterHandler_defaulted(cfg) ==
  [cfg EXCEPT !.redirectStatus = Coalesce(@, Num(307))]

\* the configuration object after a handler has run: nothing is assigned to it
configAfterHandler(cfg) == cfg

(***************************************************************************)
(* runRedirector: options, environment, configuration and port.            *)
(***************************************************************************)
NaN == [t |-> "number", s |-> "NaN", n |-> 0]

IsDigit(c) == \E d \in 0..9 : Digit(d) = c

DigitValue(c) == CHOOSE d \in 0..9 : Digit(d) = c

RECURSIVE parseDigits(_, _, _)
parseDigits(str, i, acc) ==
  IF i > Len(str) \/ ~IsDigit(SubSeq(str, i, i)) THEN acc
  ELSE parseDigits(str, i + 1, acc * 10 + DigitValue(SubSeq(str, i, i)))

\* parseInt(str, 10) on an unsigned string: the leading digits, NaN without any
parseInt(str) ==
  IF str = "" \/ ~IsDigit(SubSeq(str, 1, 1)) THEN NaN ELSE Num(parseDigits(str, 1, 0))

Options(cfg, port) == [config |-> cfg, port |-> port]

NoOptions == Options(NoConfig, Undefined)

\* a few rules for the configurations the server is started with
ServerRules ==
  { Rule(Str("/biz"), Str("/baz"), Undefined),
    Rule(Str("/biz"), Str("https://blog.example.com"), Num(301)),
    Rule(Str("/blog"), Undefined, Undefined) }

\* configuration literals a caller passes in; the compiler checks them
\* against interface Config, which allows an empty destination
InlineConfigs ==
  { Document("object", d, rs, r) :
      d \in {Str(""), Str("bar.com")},
      rs \in {Undefined, Num(301)},
      r \in { Redirects("undefined", <<>>), Redirects("array", <<>>) }
            \cup { Redirects("array", <<x>>) : x \in ServerRules \cap TypedRules } }

\* documents the file at configPath can hold
ServerDocuments ==
  { Document("object", d, rs, r) :
      d \in {Undefined, Str(""), Str("bar.com"), Num(5)},
      rs \in {Undefined, Num(301)},
      r \in { Redirects("undefined", <<>>) }
            \cup { Redirects("array", <<x>>) : x \in ServerRules } }
  \cup { NullDocument }

PortOptions == { Undefined, Num(0), Num(3000) }

PortEnvs == { Undefined, Str(""), Str("9000"), Str("abc"), Str("99999") }

OptionsValues == { Options(c, p) : c \in InlineConfigs \cup {NoConfig}, p \in PortOptions }

\* variant: the file is loaded even when a configuration was provided
obtainConfig_fileFirst(opts, parsed) ==
  LET r == loadConfig(parsed)
  IN IF r.outcome = "return"
     THEN [outcome |-> "return", value |-> r.value, error |-> "", read |-> TRUE]
     ELSE IF opts.config.t \notin {"undefined", "null"}
          THEN [outcome |-> "return", value |-> opts.config, error |-> "", read |-> TRUE]
          ELSE [outcome |-> r.outcome, value |-> r.value, error |-> r.error, read |-> TRUE]

\* providedConfig ?? await loadConfig(configPath); read tells whether the
\* file was read
obtainConfig(opts, parsed) ==
  IF opts.config.t \notin {"undefined", "null"}
  THEN [outcome |-> "return", value |-> opts.config, error |-> "", read |-> FALSE]
  ELSE LET r == loadConfig(parsed)
       IN [outcome |-> r.outcome, value |-> r.value, error |-> r.error, read |-> TRUE]

\* port ?? (Deno.env.get("PORT") ? parseInt(Deno.env.get("PORT")!, 10) : 8008)
serverPort(opts, portEnv) ==
  Coalesce(opts.port, IF Truthy(portEnv) THEN parseInt(portEnv.s) ELSE Num(8008))

NoServer == [state |-> "none", port |-> Undefined]

\* a port Deno.serve can listen on
validPort(v) == v.t = "number" /\ v.s # "NaN" /\ v.n >= 0 /\ v.n <= 65535

\* configurations a caller hands to createHandler: a literal, or what
\* loadConfig returned
HandlerConfigs ==
  InlineConfigs \cup { d \in ServerDocuments : loadConfig(d).outcome = "return" }

(***************************************************************************)
(* Calls of getRedirectInfo in flight: each call has its own locals        *)
(* (pathname, search, defaultStatus, the position of the for loop) and     *)
(* reads the one configuration all calls share.                            *)
(***************************************************************************)
Calls == 1..MaxCalls

Frame(phase, u, pathname, search, dflt, i, result) ==
  [phase |-> phase, url |-> u, pathname |-> pathname, search |-> search,
   defaultStatus |-> dflt, i |-> i, result |-> result]

IdleFrame == Frame("idle", NoURL, "", "", Undefined, 0, NoInfo)

\* the URLs the concurrent calls are made with
CallURLs ==
  { URL("/biz", ""), URL("/biz", "?test=1"), URL("/blog", ""), URL("/other", "?test=1") }

\* entry of the function: the three const declarations
enterCall(u, cfg) ==
  Frame("scan", u, u.pathname, u.search, defaultStatus(cfg), 1, NoInfo)

finish(f, result) == [f EXCEPT !.phase = "done", !.result = result]

\* one step of the body: the `if (config.redirects)` test, one iteration of
\* the for loop, or the final return
stepCall(f, cfg) ==
  IF cfg.redirects.t \in {"undefined", "null"}
  THEN finish(f, Info(defaultURL(cfg, f.pathname, f.search), f.defaultStatus))
  ELSE IF cfg.redirects.t # "array"
  THEN finish(f, TypeError)
  ELSE IF f.i > Len(cfg.redirects.items)
  THEN finish(f, Info(defaultURL(cfg, f.pathname, f.search), f.defaultStatus))
  ELSE LET rule == cfg.redirects.items[f.i]
       IN IF rule.t = "null"
          THEN finish(f, TypeError)
          ELSE IF matches(f.pathname, rule)
               THEN finish(f, applyRule(cfg, rule, f.search, f.defaultStatus))
               ELSE [f EXCEPT !.i = f.i + 1]

\* variant: pathname and search are module-level variables, so entering a
\* call overwrites them for the calls still scanning
startCall_sharedLocals(cs, p, u, cfg) ==
  [q \in DOMAIN cs |->
     IF q = p THEN enterCall(u, cfg)
     ELSE IF cs[q].phase = "scan"
          THEN [cs[q] EXCEPT !.pathname = u.pathname, !.search = u.search]
          ELSE cs[q]]

\* the calls in flight after call p has been entered with url u
startCall(cs, p, u, cfg) == [cs EXCEPT ![p] = enterCall(u, cfg)]

\* configurations the concurrent calls share
SharedConfigs ==
  { Document("object", Str("bar.com"), rs, Redirects("array", items)) :
      rs \in {Undefined, Num(301)},
      items \in SeqsUpTo({ Rule(Str("/biz"), Str("/baz"), Undefined),
                           Rule(Str("/biz"), Str("https://blog.example.com"), Num(301)),
                           Rule(Str("/blog"), Str("/baz"), Num(301)) }, MaxRules) }
  \cup { Document("object", Str("bar.com"), Undefined, Redirects("undefined", <<>>)) }

(***************************************************************************)
(* The state machine: a document is loaded once, then requests are         *)
(* resolved against the returned configuration.                            *)
(***************************************************************************)
Init ==
  /\ pc = "start"
  /\ raw = NoConfig
  /\ config = NoConfig
  /\ error = ""
  /\ url = NoURL
  /\ redirect = NoInfo
  /\ options = NoOptions
  /\ env = Undefined
  /\ reads = 0
  /\ server = NoServer
  /\ request = NoRequest
  /\ response = NoResponse
  /\ handler = "none"
  /\ calls = [p \in Calls |-> IdleFrame]

LoadConfig ==
  /\ pc = "start"
  /\ \E parsed \in Documents :
       LET r == loadConfig(parsed)
       IN /\ raw' = parsed
          /\ IF r.outcome = "return"
             THEN /\ pc' = "loaded"
                  /\ config' = r.value
                  /\ error' = ""
             ELSE /\ pc' = "failed"
                  /\ config' = NoConfig
                  /\ error' = r.error
  /\ UNCHANGED <<url, redirect, serverVars, calls>>

GetRedirectInfo ==
  /\ pc = "loaded"
  /\ \E u \in URLs :
       /\ url' = u
       /\ redirect' = getRedirectInfo(u, config)
  /\ UNCHANGED <<pc, raw, config, error, serverVars, calls>>

Next == LoadConfig \/ GetRedirectInfo

Spec == Init /\ [][Next]_vars

(***************************************************************************)
(* The server: runRedirector obtains the configuration, computes the port  *)
(* and starts Deno.serve, whose handler answers requests; createHandler    *)
(* wraps a configuration the caller supplies.                              *)
(***************************************************************************)
\* runRedirector(options) is called: options are destructured, PORT is what
\* the environment holds
RunRedirector ==
  /\ pc = "start"
  /\ \E o \in OptionsValues, e \in PortEnvs :
       /\ options' = o
       /\ env' = e
  /\ pc' = "called"
  /\ UNCHANGED <<raw, config, error, url, redirect, reads, server, request,
                 response, handler, calls>>

\* const config = providedConfig ?? await loadConfig(configPath)
ObtainConfig ==
  /\ pc = "called"
  /\ \E parsed \in ServerDocuments :
       LET r == obtainConfig(options, parsed)
       IN /\ raw' = IF r.read THEN parsed ELSE raw
          /\ reads' = IF r.read THEN reads + 1 ELSE reads
          /\ IF r.outcome = "return"
             THEN /\ pc' = "configured"
                  /\ config' = r.value
                  /\ error' = ""
             ELSE /\ pc' = "rejected"
                  /\ config' = NoConfig
                  /\ error' = r.error
  /\ UNCHANGED <<url, redirect, options, env, server, request, response, handler,
                 calls>>

\* Deno.serve({ port: serverPort, ... }, handler); what the runtime does with
\* a port it cannot listen on is left open
Serve ==
  /\ pc = "configured"
  /\ \E outcome \in {"listening", "error"} :
       /\ validPort(serverPort(options, env)) => outcome = "listening"
       /\ server' = [state |-> outcome, port |-> serverPort(options, env)]
       /\ pc' = outcome
  /\ UNCHANGED <<raw, config, error, url, redirect, options, env, reads, request,
                 response, handler, calls>>

\* the server passes a request to runRedirector's handler
ServeRequest ==
  /\ pc = "listening"
  /\ \E href \in Requests :
       /\ request' = href
       /\ url' = parseURL(href)
       /\ redirect' = getRedirectInfo(parseURL(href), config)
       /\ response' = runRedirectorResponse(href, config)
  /\ handler' = "runRedirector"
  /\ config' = configAfterHandler(config)
  /\ UNCHANGED <<pc, raw, error, options, env, reads, server, calls>>

\* createHandler(config)
CreateHandler ==
  /\ pc = "start"
  /\ \E cfg \in HandlerConfigs : config' = cfg
  /\ pc' = "handler"
  /\ UNCHANGED <<raw, error, url, redirect, serverVars, calls>>

\* the caller's server passes a request to the handler createHandler returned
HandleRequest ==
  /\ pc = "handler"
  /\ \E href \in Requests :
       /\ request' = href
       /\ url' = parseURL(href)
       /\ redirect' = getRedirectInfo(parseURL(href), config)
       /\ response' = createHandlerResponse(href, config)
  /\ handler' = "createHandler"
  /\ config' = configAfterHandler(config)
  /\ UNCHANGED <<pc, raw, error, options, env, reads, server, calls>>

ServerNext ==
  \/ RunRedirector
  \/ ObtainConfig
  \/ Serve
  \/ ServeRequest
  \/ CreateHandler
  \/ HandleRequest

ServerSpec == Init /\ [][ServerNext]_vars

(***************************************************************************)
(* Concurrent resolution: request handlers sharing one configuration call  *)
(* getRedirectInfo, and the steps of their calls interleave in any order.  *)
(***************************************************************************)
\* the configuration the handlers share is fixed before serving begins
ShareConfig ==
  /\ pc = "start"
  /\ \E cfg \in SharedConfigs : config' = cfg
  /\ pc' = "shared"
  /\ UNCHANGED <<raw, error, url, redirect, serverVars, calls>>

\* call p is made (again, once the previous call of p has returned)
StartCall(p) ==
  /\ pc = "shared"
  /\ calls[p].phase \in {"idle", "done"}
  /\ \E u \in CallURLs : calls' = startCall(calls, p, u, config)
  /\ UNCHANGED <<pc, raw, config, error, url, redirect, serverVars>>

\* call p takes one step
StepCall(p) ==
  /\ pc = "shared"
  /\ calls[p].phase = "scan"
  /\ calls' = [calls EXCEPT ![p] = stepCall(calls[p], config)]
  /\ UNCHANGED <<pc, raw, config, error, url, redirect, serverVars>>

ConcurrentNext ==
  \/ ShareConfig
  \/ \E p \in Calls : StartCall(p)
  \/ \E p \in Calls : StepCall(p)

ConcurrentSpec == Init /\ [][ConcurrentNext]_vars

(***************************************************************************)
(* Vocabulary of the properties.                                           *)
(***************************************************************************)
\* getRedirectInfo has been called on the loaded configuration
Resolved == pc = "loaded" /\ redirect.outcome # "none"

Present(v) == v.t \notin {"undefined", "null"}

\* the value conforms to interface RedirectRule
IsRedirectRule(r) ==
  /\ r.t = "object"
  /\ r.from.t = "string"
  /\ r.to.t = "string"
  /\ r.status \in {Undefined, Num(301), Num(307)}

\* the value conforms to interface Config
IsConfig(cfg) ==
  /\ cfg.t = "object"
  /\ cfg.destination.t = "string"
  /\ cfg.redirectStatus \in {Undefined, Num(301), Num(307)}
  /\ cfg.redirects.t \in {"undefined", "array"}
  /\ \A i \in 1..Len(cfg.redirects.items) : IsRedirectRule(cfg.redirects.items[i])

rules == config.redirects.items

\* indices of the rules whose `from` equals the request path
Matching == { i \in 1..Len(rules) : rules[i].from = Str(url.pathname) }

\* the lowest such index, 0 when there is none
First == IF Matching = {} THEN 0 ELSE CHOOSE i \in Matching : \A j \in Matching : i <= j

WithRules(cfg, items) == [cfg EXCEPT !.redirects = Redirects("array", items)]

HasPrefix(str, prefix) == Len(str) >= Len(prefix) /\ SubSeq(str, 1, Len(prefix)) = prefix

Absolute(to) == HasPrefix(to, "http://") \/ HasPrefix(to, "https://")

\* the status the configuration prescribes when no rule says otherwise
GlobalStatus == IF Present(config.redirectStatus) THEN config.redirectStatus ELSE Num(307)

\* the default substitution for the current request
DefaultSubstitution ==
  [outcome |-> "return",
   url |-> "https://" \o config.destination.s \o url.pathname \o url.search,
   status |-> GlobalStatus]

(***************************************************************************)
(* C1  First match wins: the result is that of the configuration reduced   *)
(* to its lowest-index matching rule alone, and replacing any later rule   *)
(* by any other entry leaves the returned url and status unchanged.        *)
(***************************************************************************)
C1_FirstMatchWins ==
  (Resolved /\ IsConfig(config) /\ First > 0) =>
    /\ redirect = getRedirectInfo(url, WithRules(config, <<rules[First]>>))
    /\ \A j \in (First + 1)..Len(rules) : \A r \in Rules :
         getRedirectInfo(url, WithRules(config, [rules EXCEPT ![j] = r])) = redirect

\* two rules share the request's `from` and would resolve differently
C1_Witness ==
  /\ Resolved /\ IsConfig(config)
  /\ Len(rules) = 2 /\ Matching = {1, 2}
  /\ rules[1].to # rules[2].to
  /\ rules[1].status # rules[2].status

(***************************************************************************)
(* C2  Default substitution: when no rule's `from` equals the request      *)
(* path (redirects empty or absent included) the result is                 *)
(* "https://" + destination + path + query with status redirectStatus if   *)
(* present, else 307.                                                      *)
(***************************************************************************)
C2_DefaultSubstitution ==
  (Resolved /\ IsConfig(config) /\ Matching = {}) =>
    /\ redirect.outcome = "return"
    /\ redirect.url = "https://" \o config.destination.s \o url.pathname \o url.search
    /\ redirect.status = (IF config.redirectStatus = Undefined THEN Num(307)
                          ELSE config.redirectStatus)

\* redirects absent, a query string on the request, a configured status
C2_Witness ==
  /\ Resolved /\ IsConfig(config)
  /\ config.redirects.t = "undefined"
  /\ url.search = "?test=1"
  /\ config.redirectStatus = Num(301)
  /\ redirect.url = "https://bar.com/other?test=1"

(***************************************************************************)
(* C3  Absolute rule, query dropped: when the first matching rule's `to`   *)
(* begins with "http://" or "https://" the returned url is exactly that    *)
(* `to`, whatever the request's query string.                              *)
(***************************************************************************)
C3_AbsoluteRuleVerbatim ==
  (Resolved /\ IsConfig(config) /\ First > 0 /\ Absolute(rules[First].to.s)) =>
    /\ redirect.outcome = "return"
    /\ redirect.url = rules[First].to.s

\* an http:// rule is selected by a request that carries a query string
C3_Witness ==
  /\ Resolved /\ IsConfig(config) /\ First > 0
  /\ HasPrefix(rules[First].to.s, "http://")
  /\ url.search = "?test=1"
  /\ redirect.url = "http://old.example.com/x"

(***************************************************************************)
(* C4  Relative rule substitution: when the first matching rule's `to`     *)
(* does not begin with "http://" or "https://" the returned url is         *)
(* "https://" + destination + rule.to + query.                             *)
(***************************************************************************)
C4_RelativeRuleSubstitution ==
  (Resolved /\ IsConfig(config) /\ First > 0 /\ ~Absolute(rules[First].to.s)) =>
    /\ redirect.outcome = "return"
    /\ redirect.url =
         "https://" \o config.destination.s \o rules[First].to.s \o url.search

\* a relative rule is selected by a request that carries a query string
C4_Witness ==
  /\ Resolved /\ IsConfig(config) /\ First > 0
  /\ url = URL("/biz", "?test=1")
  /\ redirect.url = "https://bar.com/baz?test=1"

(***************************************************************************)
(* C5  Status precedence: a request that selects a rule gets rule.status   *)
(* if present, else redirectStatus if present, else 307; a request that    *)
(* selects none gets redirectStatus if present, else 307; and the status   *)
(* of a rule the request does not select has no effect on the result.      *)
(***************************************************************************)
StatusValues == {Undefined, Num(301), Num(307)}

WithStatus(cfg, j, st) == [cfg EXCEPT !.redirects.items[j].status = st]

C5_StatusPrecedence ==
  (Resolved /\ IsConfig(config)) =>
    /\ redirect.outcome = "return"
    /\ redirect.status =
         (IF First > 0 /\ Present(rules[First].status) THEN rules[First].status
          ELSE IF Present(config.redirectStatus) THEN config.redirectStatus
          ELSE Num(307))
    /\ \A j \in 1..Len(rules) : \A st \in StatusValues :
         j # First => getRedirectInfo(url, WithStatus(config, j, st)).status = redirect.status

\* the selected rule's 307 overrides the global 301 while another rule says 301
C5_Witness ==
  /\ Resolved /\ IsConfig(config)
  /\ config.redirectStatus = Num(301)
  /\ First = 1 /\ rules[1].status = Num(307)
  /\ Len(rules) = 2 /\ rules[2].status = Num(301)
  /\ redirect.status = Num(307)

(***************************************************************************)
(* C6  Exact match only: a request whose path is string-equal to no rule's *)
(* `from` gets the default substitution even when rules exist (a trailing  *)
(* slash or a different letter case is a different path), a request whose  *)
(* path equals a `from` gets that rule's target, and the query string does *)
(* not change which of the two happens.                                    *)
(***************************************************************************)
Froms == { rules[i].from.s : i \in 1..Len(rules) }

\* the result is the target of rule i, absolute or relative
TargetOf(info, i, search) ==
  /\ info.outcome = "return"
  /\ info.url \in { rules[i].to.s,
                     "https://" \o config.destination.s \o rules[i].to.s \o search }

C6_ExactMatchOnly ==
  (Resolved /\ IsConfig(config)) =>
    /\ url.pathname \notin Froms => redirect = DefaultSubstitution
    /\ url.pathname \in Froms =>
         \E i \in 1..Len(rules) :
           rules[i].from.s = url.pathname /\ TargetOf(redirect, i, url.search)
    /\ \A q \in Searches :
         LET other == getRedirectInfo(URL(url.pathname, q), config)
         IN IF url.pathname \in Froms
            THEN \E i \in 1..Len(rules) :
                   rules[i].from.s = url.pathname /\ TargetOf(other, i, q)
            ELSE other.url = "https://" \o config.destination.s \o url.pathname \o q

\* "/biz/" or "/BIZ" is requested while a rule for "/biz" exists
C6_Witness ==
  /\ Resolved /\ IsConfig(config)
  /\ url.pathname \in {"/biz/", "/BIZ"}
  /\ "/biz" \in Froms
  /\ redirect.url = "https://bar.com" \o url.pathname \o url.search

(***************************************************************************)
(* C7  Validation of a mapping: when `destination` is absent or the empty  *)
(* string loadConfig throws "Config must include a 'destination' field"    *)
(* and returns no Configuration; when it is a non-empty string loadConfig  *)
(* returns the Configuration.                                              *)
(***************************************************************************)
Loaded == pc # "start"

C7_MissingOrEmptyDestination ==
  (Loaded /\ raw.t = "object") =>
    /\ raw.destination \in {Undefined, Str("")} =>
         /\ pc = "failed"
         /\ error = "Config must include a 'destination' field"
         /\ config = NoConfig
    /\ (raw.destination.t = "string" /\ raw.destination.s # "") =>
         /\ pc = "loaded"
         /\ error = ""
         /\ config = raw

\* a mapping whose destination is the empty string has been rejected
C7_Witness ==
  /\ pc = "failed"
  /\ raw.t = "object"
  /\ raw.destination = Str("")
  /\ Len(raw.redirects.items) > 0

(***************************************************************************)
(* C8  Validation of a mapping whose `destination` is present but not a    *)
(* string: loadConfig throws the missing-destination error and returns no  *)
(* Configuration.                                                          *)
(***************************************************************************)
C8_NonStringDestinationRejected ==
  (Loaded /\ raw.t = "object" /\ raw.destination.t \in {"number", "boolean", "array"}) =>
    /\ pc = "failed"
    /\ error = "Config must include a 'destination' field"
    /\ config = NoConfig

(***************************************************************************)
(* C9  For every configuration loadConfig accepts, whatever numbers the    *)
(* document holds in redirectStatus and in the rules' status, the status   *)
(* getRedirectInfo returns is 301 or 307.                                  *)
(***************************************************************************)
\* the document is well-typed apart from the numbers in its status fields
TypedButStatus(cfg) ==
  /\ cfg.destination.t = "string"
  /\ cfg.redirectStatus.t \in {"undefined", "number"}
  /\ cfg.redirects.t \in {"undefined", "array"}
  /\ \A i \in 1..Len(cfg.redirects.items) :
       LET r == cfg.redirects.items[i]
       IN /\ r.t = "object"
          /\ r.from.t = "string"
          /\ r.to.t = "string"
          /\ r.status.t \in {"undefined", "number"}

C9_StatusIs301Or307 ==
  (Resolved /\ TypedButStatus(config)) =>
    /\ redirect.outcome = "return"
    /\ redirect.status \in {Num(301), Num(307)}

(***************************************************************************)
(* C10  Totality: for every configuration loadConfig accepts whose         *)
(* redirects is a list (or absent), whatever the shape of the list's       *)
(* entries, getRedirectInfo returns a result and does not throw.           *)
(***************************************************************************)
C10_NeverThrows ==
  (Resolved /\ config.redirects.t \in {"undefined", "array"}) =>
    redirect.outcome = "return"

(***************************************************************************)
(* C11  (as stated) Every Configuration a successful loadConfig returns    *)
(* has redirectStatus = 307 when the document had none and redirects = the *)
(* empty sequence when the document had none.                              *)
(***************************************************************************)
C11_DefaultsAppliedByValidation ==
  (pc = "loaded") =>
    /\ raw.redirectStatus = Undefined => config.redirectStatus = Num(307)
    /\ raw.redirects.t = "undefined" => config.redirects = Redirects("array", <<>>)

\* the configuration with the two defaults written into it
WithDefaults(cfg) ==
  [cfg EXCEPT !.redirectStatus = IF @ = Undefined THEN Num(307) ELSE @,
              !.redirects = IF @.t = "undefined" THEN Redirects("array", <<>>) ELSE @]

(***************************************************************************)
(* C11  (amended) A successful loadConfig returns the parsed document      *)
(* unchanged, absent fields staying absent; the defaults take effect when  *)
(* getRedirectInfo reads them: its result is the one it gives for the same *)
(* configuration with redirectStatus = 307 and redirects = the empty       *)
(* sequence written in.                                                    *)
(***************************************************************************)
C11_DefaultsAtReadTime ==
  (pc = "loaded") =>
    /\ config = raw
    /\ Resolved => redirect = getRedirectInfo(url, WithDefaults(config))

\* a document without redirectStatus and redirects has been loaded and resolved
C11_Witness ==
  /\ Resolved
  /\ raw.redirectStatus = Undefined
  /\ raw.redirects.t = "undefined"
  /\ config.redirectStatus = Undefined
  /\ redirect.status = Num(307)

(***************************************************************************)
(* C12  (as stated) For every validated Configuration and every request    *)
(* the returned url begins with "http://" or "https://" immediately        *)
(* followed by a non-empty host, then optionally a path and a query.       *)
(***************************************************************************)
Chars(str) == { SubSeq(str, i, i) : i \in 1..Len(str) }

AfterScheme(str) ==
  IF HasPrefix(str, "https://") THEN SubSeq(str, 9, Len(str))
  ELSE IF HasPrefix(str, "http://") THEN SubSeq(str, 8, Len(str))
  ELSE ""

\* scheme, then a host of at least one character that is not a delimiter
CompleteURL(str) ==
  /\ Absolute(str)
  /\ AfterScheme(str) # ""
  /\ SubSeq(AfterScheme(str), 1, 1) \notin {"/", "?", "#"}

C12_CompleteURL ==
  (Resolved /\ IsConfig(config)) =>
    /\ redirect.outcome = "return"
    /\ CompleteURL(redirect.url)

\* the fields hold what the data model says: a host, and paths or complete URLs
MeetsDataModel(cfg) ==
  /\ cfg.destination.s # ""
  /\ Chars(cfg.destination.s) \cap {"/", "?", "#"} = {}
  /\ \A i \in 1..Len(cfg.redirects.items) :
       LET to == cfg.redirects.items[i].to.s
       IN HasPrefix(to, "/") \/ CompleteURL(to)

(***************************************************************************)
(* C12  (amended) For every validated Configuration whose destination is a *)
(* host name (non-empty, without '/', '?' or '#') and whose rules' `to` is *)
(* either a path beginning with '/' or a complete absolute URL, and every  *)
(* request, the returned url begins with "http://" or "https://"           *)
(* immediately followed by a non-empty host.                               *)
(***************************************************************************)
C12_CompleteURLOnDataModel ==
  (Resolved /\ IsConfig(config) /\ MeetsDataModel(config)) =>
    /\ redirect.outcome = "return"
    /\ CompleteURL(redirect.url)

\* a default substitution beside a rule, under a configuration of the data model
C12_Witness ==
  /\ Resolved /\ IsConfig(config) /\ MeetsDataModel(config)
  /\ Len(rules) > 0 /\ First = 0
  /\ redirect.url = "https://example.com/other?test=1"

(***************************************************************************)
(* C20  Given a successfully parsed document (a mapping, null or a bare    *)
(* scalar), loadConfig either returns a Configuration or throws "Config    *)
(* must include a 'destination' field", and fails with no other error.     *)
(***************************************************************************)
C20_OnlyMissingDestination ==
  Loaded =>
    \/ pc = "loaded" /\ error = ""
    \/ pc = "failed" /\ error = "Config must include a 'destination' field"

(***************************************************************************)
(* Vocabulary of the properties of the server.                             *)
(***************************************************************************)
\* a handler has been handed a request
Answered == response.outcome # "none"

\* the configuration runRedirector is to use: options.config if provided,
\* otherwise what the file holds
Provided == Present(options.config)

(***************************************************************************)
(* C13  The response of createHandler's handler, and of the handler inside *)
(* runRedirector, has no body, the status getRedirectInfo(url, config)     *)
(* returns and a Location header equal to the url it returns; the two      *)
(* handlers give the same response for the same request and configuration. *)
(***************************************************************************)
C13_HandlerTransmits ==
  (Answered /\ IsConfig(config)) =>
    /\ response.outcome = "return"
    /\ response.body = Null
    /\ response.status = getRedirectInfo(parseURL(request), config).status
    /\ response.location = getRedirectInfo(parseURL(request), config).url
    /\ createHandlerResponse(request, config) = response
    /\ runRedirectorResponse(request, config) = response

\* runRedirector's handler has answered with a rule's own status and target
C13_Witness ==
  /\ Answered /\ IsConfig(config)
  /\ handler = "runRedirector"
  /\ request = "http://foo.com:8080/biz?test=1"
  /\ response.status = Num(301)
  /\ response.location = "https://blog.example.com"

(***************************************************************************)
(* C15  Two requests with equal path and query that differ in scheme,      *)
(* host, port or fragment resolve to the same {url, status}; the default   *)
(* and the relative-rule result begin with "https://" whatever the scheme  *)
(* of the request.                                                         *)
(***************************************************************************)
SamePathAndQuery(href) ==
  /\ parseURL(href).pathname = url.pathname
  /\ parseURL(href).search = url.search

C15_OnlyPathAndQuery ==
  (Answered /\ IsConfig(config)) =>
    /\ \A href \in Requests :
         SamePathAndQuery(href) => getRedirectInfo(parseURL(href), config) = redirect
    /\ (First = 0 \/ ~Absolute(rules[First].to.s)) => HasPrefix(redirect.url, "https://")

\* an http request is resolved to https, and another request with the same
\* path and query has a different scheme, host, port and fragment
C15_Witness ==
  /\ Answered /\ IsConfig(config)
  /\ request = "http://foo.com:8080/biz?test=1"
  /\ SamePathAndQuery("https://other.org/biz?test=1#frag")
  /\ redirect.url = "https://bar.com/baz?test=1"

(***************************************************************************)
(* C16  The configuration is read-only: no request handled by either       *)
(* handler changes the configuration in use or the one given in options.   *)
(***************************************************************************)
ConfigKept ==
  pc \in {"handler", "listening"} => (config' = config /\ options' = options)

C16_ConfigReadOnly == [][ConfigKept]_vars

\* several fields are in use and a request has been answered by a rule
C16_Witness ==
  /\ Answered
  /\ handler = "runRedirector"
  /\ config = options.config
  /\ config.redirectStatus = Undefined
  /\ Len(rules) = 1
  /\ redirect.url = "https://bar.com/baz"

(***************************************************************************)
(* C17  runRedirector listens on options.port when provided, otherwise on  *)
(* the integer value of PORT when it is set, otherwise on 8008, and the    *)
(* port passed to the server is a valid integer port number.               *)
(***************************************************************************)
C17_PortPrecedenceAndValidity ==
  (server.state # "none") =>
    /\ server.port = (IF options.port # Undefined THEN options.port
                      ELSE IF env # Undefined /\ env # Str("") THEN parseInt(env.s)
                      ELSE Num(8008))
    /\ server.port.s # "NaN"
    /\ server.port.n \in 0..65535

(***************************************************************************)
(* C18  Startup ordering: runRedirector obtains the configuration once,    *)
(* options.config if provided (the file is then not read), otherwise       *)
(* loadConfig's result, before the server starts; when loadConfig throws   *)
(* the server is not started and no request is answered; every request is  *)
(* resolved against that configuration.                                    *)
(***************************************************************************)
C18_StartupOrdering ==
  /\ reads <= 1
  /\ pc \in {"start", "called", "rejected"} => (server = NoServer /\ ~Answered)
  /\ pc \in {"configured", "listening", "error"} =>
       /\ reads = (IF Provided THEN 0 ELSE 1)
       /\ config = (IF Provided THEN options.config ELSE raw)
  /\ pc = "rejected" => (~Provided /\ reads = 1 /\ config = NoConfig)
  /\ server.state # "none" => pc \in {"listening", "error"}
  /\ handler = "runRedirector" =>
       /\ server.state = "listening"
       /\ response =
            runRedirectorResponse(request, IF Provided THEN options.config ELSE raw)

\* a request is answered from the configuration the file held, read once
C18_Witness ==
  /\ handler = "runRedirector"
  /\ ~Provided /\ reads = 1
  /\ Len(raw.redirects.items) = 1
  /\ response.outcome = "return"

(***************************************************************************)
(* C19  Whenever runRedirector's server or a handler from createHandler    *)
(* answers requests, the configuration in use has a non-empty string       *)
(* destination.                                                            *)
(***************************************************************************)
C19_ServingImpliesDestination ==
  pc \in {"listening", "handler"} =>
    /\ config.destination.t = "string"
    /\ config.destination.s # ""

(***************************************************************************)
(* C14  History independence under repetition and interleaving: whatever   *)
(* calls ran before or run meanwhile, the result of each call of           *)
(* getRedirectInfo is the result of that call made alone with the same     *)
(* path, query and configuration; two calls with the same inputs return    *)
(* the same output.                                                        *)
(***************************************************************************)
C14_HistoryIndependence ==
  /\ \A p \in Calls :
       calls[p].phase = "done" => calls[p].result = getRedirectInfo(calls[p].url, config)
  /\ \A p, q \in Calls :
       (calls[p].phase = "done" /\ calls[q].phase = "done" /\ calls[p].url = calls[q].url)
         => calls[p].result = calls[q].result

\* one call has returned a rule's target while another, with a different
\* url, is in the middle of its scan
C14_Witness ==
  /\ calls[1].phase = "done"
  /\ calls[1].url = URL("/blog", "")
  /\ calls[1].result.url = "https://bar.com/baz"
  /\ calls[2].phase = "scan"
  /\ calls[2].i = 2
  /\ calls[2].url = URL("/other", "?test=1")

====
